---- MODULE Spec2Model ----
(***************************************************************************)
(* Model of the Hair compound shape of src/src/shapes/hair.cpp:            *)
(*   - the constructor from Properties: the strand file parser,           *)
(*   - serialize and the unserializing constructor: the binary codec,     *)
(*   - getElement: the index -> sphere/cylinder expansion.                 *)
(* Each of the three is explored by its own specification (SpecParse,      *)
(* SpecCodec, SpecExpand / SpecConc) over the same state variables.        *)
(***************************************************************************)
EXTENDS Integers, Sequences, FiniteSets, TLC

\* ---------------------------------------------------------------- bounds
MaxLines == 4       \* lines of a strand file

MaxSegs == 2        \* segments of a store given to the codec or to getElement

MaxCalls == 2       \* getElement calls of the single caller of SpecExpand

NThreads == 2       \* concurrent callers of getElement in SpecConc

MaxConcCalls == 2   \* getElement calls of all the callers of SpecConc

\* ------------------------------------------------------- Float and Point
\* A Float is modelled exactly as a reduced fraction n/d with d > 0.
\* d = 0 is a non-finite value; n = 0, d = 0 is NaN (the result of 0/0).
R(k) == [n |-> k, d |-> 1]

NaN == [n |-> 0, d |-> 0]

IsFinite(a) == a.d # 0

Abs(k) == IF k < 0 THEN -k ELSE k

RECURSIVE Gcd(_, _)
Gcd(a, b) == IF b = 0 THEN a ELSE Gcd(b, a % b)

Frac(n, d) ==
  IF d = 0 THEN [n |-> (IF n > 0 THEN 1 ELSE IF n < 0 THEN -1 ELSE 0), d |-> 0]
  ELSE LET g == Gcd(Abs(n), Abs(d))
           s == IF d < 0 THEN -1 ELSE 1
       IN  [n |-> s * (n \div g), d |-> s * (d \div g)]

\* an operand that is not finite makes the result NaN
FAdd(a, b) ==
  IF ~IsFinite(a) \/ ~IsFinite(b) THEN NaN
  ELSE Frac(a.n * b.d + b.n * a.d, a.d * b.d)

FSub(a, b) ==
  IF ~IsFinite(a) \/ ~IsFinite(b) THEN NaN
  ELSE Frac(a.n * b.d - b.n * a.d, a.d * b.d)

FMul(a, b) ==
  IF ~IsFinite(a) \/ ~IsFinite(b) THEN NaN ELSE Frac(a.n * b.n, a.d * b.d)

\* 0/0 is NaN, x/0 is an infinity
FDiv(a, b) ==
  IF ~IsFinite(a) \/ ~IsFinite(b) THEN NaN ELSE Frac(a.n * b.d, a.d * b.n)

\* exact on the squares of fractions, which is all the model's points need
ISqrt(k) == CHOOSE r \in 0..k : r * r = k

FSqrt(a) ==
  IF ~IsFinite(a) \/ a.n < 0 THEN NaN ELSE Frac(ISqrt(a.n), ISqrt(a.d))

Pt(x, y, z) == [x |-> x, y |-> y, z |-> z]

\* "Point p, prev;" leaves both without a meaningful value
UninitPoint == Pt(NaN, NaN, NaN)

\* struct HairSegment { Point start, end; }
HairSegment(start, end) == [start |-> start, end |-> end]

\* ------------------------------------------------------------ strand file
\* A line is the sequence of its tokens.  "#" as first token is a line
\* whose first character is '#'; the empty sequence is an empty line.
CommentLine == <<"#">>

BlankLine == << >>

PointLines == { <<"0", "0", "0">>, <<"3", "0", "0">>, <<"0", "0", "4">> }

Lines == PointLines \cup {CommentLine, BlankLine}

\* operator>> of a numeric token into a Float
ParseFloat(tok) ==
  CASE tok = "0" -> R(0)
    [] tok = "3" -> R(3)
    [] tok = "4" -> R(4)

\* props.getFloat("radius", 0.05f)
DefaultRadius == Frac(5, 100)

VARIABLES
  \* inputs of Hair(const Properties&)
  file,             \* the lines of the strand file
  trailingNewline,  \* whether the last line is terminated by '\n'
  canOpen,          \* whether the file can be opened
  props,            \* the property bag
  \* locals of Hair(const Properties&)
  pc,               \* position in the constructor
  pos,              \* lines consumed from the ifstream
  is,               \* state bits of the ifstream
  line, segments, p, prev,
  \* fields of the Hair object
  m_radius, m_segments, m_objectToWorld, m_bsdf,
  \* the codec
  cpc,              \* "fresh", "serialized", "restored"
  stream,           \* the values written to the Stream, in order
  restored,         \* the Hair built by the unserializing constructor
  \* getElement
  tpc,              \* position of each caller in getElement
  frame,            \* the locals of each caller's getElement
  objects,          \* the objects the plugin registry has created, by handle
  calls,            \* getElement calls begun
  nullReturns       \* getElement calls that returned NULL

parseVars == <<file, trailingNewline, canOpen, props, pc, pos, is, line,
               segments, p, prev>>

codecVars == <<cpc, stream, restored>>

expandVars == <<tpc, frame, objects, calls, nullReturns>>

hairVars == <<m_radius, m_segments, m_objectToWorld, m_bsdf>>

vars == <<parseVars, hairVars, codecVars, expandVars>>

inputVars == <<file, trailingNewline, canOpen, props>>

NoHair == [m_radius |-> NaN, m_segments |-> << >>]

\* the values of the variables of an activity that is not running
ParseIdle ==
  /\ file = << >> /\ trailingNewline = FALSE /\ canOpen = TRUE
  /\ props = [hasRadius |-> FALSE, radius |-> NaN]
  /\ pc = "done" /\ pos = 0
  /\ is = [open |-> FALSE, eofbit |-> FALSE, failbit |-> FALSE]
  /\ line = << >> /\ segments = 0
  /\ p = UninitPoint /\ prev = UninitPoint

CodecIdle == cpc = "fresh" /\ stream = << >> /\ restored = NoHair

ExpandIdle ==
  /\ tpc = << >> /\ frame = << >> /\ objects = << >>
  /\ calls = 0 /\ nullReturns = 0

\* ------------------------------------------------- Hair(const Properties&)
RECURSIVE SeqsUpTo(_, _)
SeqsUpTo(S, k) ==
  IF k = 0 THEN { << >> }
  ELSE LET T == SeqsUpTo(S, k - 1)
       IN  T \cup { Append(t, s) : t \in { u \in T : Len(u) = k - 1 }, s \in S }

NoStream == [open |-> FALSE, eofbit |-> FALSE, failbit |-> FALSE]

good(s) == ~s.eofbit /\ ~s.failbit

fail(s) == s.failbit

\* Log(EError, ...) raises an exception; lower levels only print
LogThrows(level) == level = "EError"

InitParse ==
  /\ file \in SeqsUpTo(Lines, MaxLines)
  /\ trailingNewline \in BOOLEAN
  /\ canOpen \in BOOLEAN
  /\ props \in { [hasRadius |-> FALSE, radius |-> NaN],
                 [hasRadius |-> TRUE, radius |-> R(1)] }
  /\ pc = "start"
  /\ pos = 0
  /\ is = NoStream
  /\ line = << >>
  /\ segments = 0
  /\ p = UninitPoint
  /\ prev = UninitPoint
  /\ m_radius = NaN
  /\ m_segments = << >>
  /\ m_objectToWorld = << >>
  /\ m_bsdf = "bsdf"
  /\ CodecIdle
  /\ ExpandIdle

\* OpenFile without the is.fail() test of lines 34-35
OpenFile_NoFailTest ==
  /\ pc = "start"
  /\ m_radius' = IF props.hasRadius THEN props.radius ELSE DefaultRadius
  /\ is' = [open |-> canOpen, eofbit |-> FALSE, failbit |-> ~canOpen]
  /\ pc' = "loop"
  /\ UNCHANGED <<inputVars, pos, line, segments, p, prev, m_segments,
                 m_objectToWorld, m_bsdf, codecVars, expandVars>>

\* lines 27-35: read the properties, open the file, fail on error
OpenFile ==
  /\ pc = "start"
  /\ m_radius' = IF props.hasRadius THEN props.radius ELSE DefaultRadius
  /\ is' = [open |-> canOpen, eofbit |-> FALSE, failbit |-> ~canOpen]
  /\ pc' = IF fail(is') /\ LogThrows("EError") THEN "aborted" ELSE "loop"
  /\ UNCHANGED <<inputVars, pos, line, segments, p, prev, m_segments,
                 m_objectToWorld, m_bsdf, codecVars, expandVars>>

\* std::getline(is, line): the next line, and the stream bits it sets
GetlineLine == IF pos < Len(file) THEN file[pos + 1] ELSE << >>

GetlineStream ==
  IF pos < Len(file)
    THEN \* the delimiter is consumed, or the end of file is hit after text
         [is EXCEPT !.eofbit = (pos + 1 = Len(file) /\ ~trailingNewline)]
    ELSE \* nothing extracted
         [is EXCEPT !.eofbit = TRUE, !.failbit = TRUE]

Getline ==
  /\ pc = "loop"
  /\ good(is)
  /\ line' = GetlineLine
  /\ is' = GetlineStream
  /\ pos' = IF pos < Len(file) THEN pos + 1 ELSE pos

\* ReadComment falling through to the empty-line branch
ReadComment_Resets ==
  /\ Getline
  /\ Len(line') > 0 /\ line'[1] = "#"
  /\ segments' = 0
  /\ UNCHANGED <<inputVars, pc, p, prev, m_radius, m_segments,
                 m_objectToWorld, m_bsdf, codecVars, expandVars>>

\* lines 40-43: a comment line
ReadComment ==
  /\ Getline
  /\ Len(line') > 0 /\ line'[1] = "#"
  /\ UNCHANGED <<inputVars, pc, segments, p, prev, m_radius, m_segments,
                 m_objectToWorld, m_bsdf, codecVars, expandVars>>

\* ReadBlank without "segments = 0"
ReadBlank_NoReset ==
  /\ Getline
  /\ Len(line') = 0
  /\ UNCHANGED <<inputVars, pc, segments, p, prev, m_radius, m_segments,
                 m_objectToWorld, m_bsdf, codecVars, expandVars>>

\* lines 40-45: an empty line
ReadBlank ==
  /\ Getline
  /\ Len(line') = 0
  /\ segments' = 0
  /\ UNCHANGED <<inputVars, pc, p, prev, m_radius, m_segments,
                 m_objectToWorld, m_bsdf, codecVars, expandVars>>

\* lines 46-54: a point line
ReadPoint ==
  /\ Getline
  /\ Len(line') > 0 /\ line'[1] # "#"
  /\ p' = Pt(ParseFloat(line'[1]), ParseFloat(line'[2]), ParseFloat(line'[3]))
  /\ segments' = segments + 1
  /\ m_segments' = IF segments > 0
                     THEN Append(m_segments, HairSegment(prev, p'))
                     ELSE m_segments
  /\ prev' = p'
  /\ UNCHANGED <<inputVars, pc, m_radius, m_objectToWorld, m_bsdf, codecVars, expandVars>>

\* line 40 (loop exit) and line 57
LoopExit ==
  /\ pc = "loop"
  /\ ~good(is)
  /\ pc' = "done"
  /\ UNCHANGED <<inputVars, pos, is, line, segments, p, prev, m_radius,
                 m_segments, m_objectToWorld, m_bsdf, codecVars, expandVars>>

NextParse == OpenFile \/ ReadComment \/ ReadBlank \/ ReadPoint \/ LoopExit

SpecParse == InitParse /\ [][NextParse]_vars

\* ------------------------------------------------------------ the codec
PointSet == { Pt(R(0), R(0), R(0)), Pt(R(3), R(0), R(0)), Pt(R(0), R(0), R(4)) }

SegmentSet == { HairSegment(a, b) : a \in PointSet, b \in PointSet }

Radii == { DefaultRadius, R(1) }

\* an unsigned int, kept as its two 16-bit halves
UInt32(k) == [hi |-> (k \div 2^16) % 2^16, lo |-> k % 2^16]

\* the value of an unsigned int that is known to be small
UIntValue(u) == u.hi * 2^16 + u.lo

\* u >= n for an unsigned int u and a size n
UIntGeq(u, n) ==
  \/ u.hi > n \div 2^16
  \/ u.hi = n \div 2^16 /\ u.lo >= n % 2^16

writeFloat(v) == [type |-> "float", v |-> v]

writeUInt(k) == [type |-> "uint", v |-> UInt32(k)]

\* Point::serialize
PointSerialize(q) == <<writeFloat(q.x), writeFloat(q.y), writeFloat(q.z)>>

\* Point(Stream *): three floats from position i
PointFromStream(s, i) == Pt(s[i].v, s[i + 1].v, s[i + 2].v)

RECURSIVE SerializeSegments(_, _)
SerializeSegments(segs, i) ==
  IF i > Len(segs) THEN << >>
  ELSE PointSerialize(segs[i].start) \o PointSerialize(segs[i].end)
         \o SerializeSegments(segs, i + 1)

InitCodec ==
  /\ ParseIdle
  /\ m_radius \in Radii
  /\ m_segments \in SeqsUpTo(SegmentSet, MaxSegs)
  /\ m_objectToWorld = << >>
  /\ m_bsdf = "bsdf"
  /\ CodecIdle
  /\ ExpandIdle

\* lines 69-78
Serialize ==
  /\ cpc = "fresh"
  /\ stream' = <<writeFloat(m_radius), writeUInt(Len(m_segments))>>
                  \o SerializeSegments(m_segments, 1)
  /\ cpc' = "serialized"
  /\ UNCHANGED <<parseVars, hairVars, restored, expandVars>>

\* line 66: the two arguments Point(stream), Point(stream) of HairSegment
\* are evaluated in an order the compiler chooses; the first one evaluated
\* takes the first three floats.
SegmentFromStream(s, i, order) ==
  IF order = "left-to-right"
    THEN HairSegment(PointFromStream(s, i), PointFromStream(s, i + 3))
    ELSE HairSegment(PointFromStream(s, i + 3), PointFromStream(s, i))

\* lines 65-66
RECURSIVE ReadSegments(_, _, _, _)
ReadSegments(s, i, count, order) ==
  IF count = 0 THEN << >>
  ELSE <<SegmentFromStream(s, i, order)>>
         \o ReadSegments(s, i + 6, count - 1, order)

\* lines 60-67
Unserialize ==
  /\ cpc = "serialized"
  /\ \E order \in {"left-to-right", "right-to-left"} :
        restored' =
          [m_radius |-> stream[1].v,
           m_segments |-> ReadSegments(stream, 3, UIntValue(stream[2].v), order)]
  /\ cpc' = "restored"
  /\ UNCHANGED <<parseVars, hairVars, stream, expandVars>>

NextCodec == Serialize \/ Unserialize

SpecCodec == InitCodec /\ [][NextCodec]_vars

\* ----------------------------------------------------------- getElement
\* Point - Point
PointSub(a, b) == Pt(FSub(a.x, b.x), FSub(a.y, b.y), FSub(a.z, b.z))

\* Vector::length
Length(v) == FSqrt(FAdd(FAdd(FMul(v.x, v.x), FMul(v.y, v.y)), FMul(v.z, v.z)))

\* normalize(v) = v / v.length()
normalize(v) ==
  LET len == Length(v) IN Pt(FDiv(v.x, len), FDiv(v.y, len), FDiv(v.z, len))

cross(a, b) ==
  Pt(FSub(FMul(a.y, b.z), FMul(a.z, b.y)),
     FSub(FMul(a.z, b.x), FMul(a.x, b.z)),
     FSub(FMul(a.x, b.y), FMul(a.y, b.x)))

\* radToDeg(std::acos(c)), kept as the angle's cosine
AcosDeg(c) ==
  IF IsFinite(c) THEN [kind |-> "acosDeg", of |-> c]
  ELSE [kind |-> "nan", of |-> NaN]

\* A Transform is kept as the sequence of the factors of its product
Translate(v) == [op |-> "translate", v |-> v, angle |-> AcosDeg(R(1))]

Rotate(axis, angle) == [op |-> "rotate", v |-> axis, angle |-> angle]

Worlds == { << >>, <<Translate(Pt(R(1), R(0), R(0)))>> }

\* integer division and remainder of C++, which truncate towards zero
TruncDiv(a, b) == IF a >= 0 THEN a \div b ELSE -((-a) \div b)

TruncRem(a, b) == a - b * TruncDiv(a, b)

\* the index used as it is, without halving it
SegmentIndex_NoHalving(_index) == UInt32(_index)

\* line 85: unsigned int index = _index / 2
SegmentIndex(_index) == UInt32(TruncDiv(_index, 2))

\* line 86
OutOfRange(_index) == UIntGeq(SegmentIndex(_index), Len(m_segments))

\* line 91
SegmentLength(seg) == Length(PointSub(seg.end, seg.start))

\* the translation taken from the end point
SegmentTransform_AtEnd(seg) ==
  LET axis == normalize(PointSub(seg.end, seg.start))
      rotAxis == normalize(cross(Pt(R(0), R(0), R(1)), axis))
      rotAngle == AcosDeg(axis.z)
  IN  m_objectToWorld \o <<Translate(seg.end)>> \o <<Rotate(rotAxis, rotAngle)>>

\* lines 93-100
SegmentTransform(seg) ==
  LET axis == normalize(PointSub(seg.end, seg.start))
      rotAxis == normalize(cross(Pt(R(0), R(0), R(1)), axis))
      rotAngle == AcosDeg(axis.z)
  IN  m_objectToWorld \o <<Translate(seg.start)>> \o <<Rotate(rotAxis, rotAngle)>>

\* lines 102-105 and 112-115: the Properties given to createObject
ElementProperties(_index, seg) ==
  IF TruncRem(_index, 2) = 0
    THEN [pluginName |-> "sphere",
          values |-> ("radius" :> m_radius) @@ ("toWorld" :> SegmentTransform(seg))]
    ELSE [pluginName |-> "cylinder",
          values |-> ("radius" :> m_radius) @@ ("length" :> SegmentLength(seg))
                       @@ ("toWorld" :> SegmentTransform(seg))]

Indices == (-3)..(2 * MaxSegs + 1)

NoProps == [pluginName |-> "none", values |-> << >>]

NoFrame == [_index |-> 0, index |-> UInt32(0), isNull |-> TRUE,
            props |-> NoProps, handle |-> 0]

CanCall(t, limit) == tpc[t] \in {"idle", "returned"} /\ calls < limit

\* lines 84-87: the index is out of range
GetElementNull(t, limit) ==
  /\ CanCall(t, limit)
  /\ \E i \in Indices :
       /\ OutOfRange(i)
       /\ frame' = [frame EXCEPT ![t] =
            [NoFrame EXCEPT !._index = i, !.index = SegmentIndex(i)]]
  /\ tpc' = [tpc EXCEPT ![t] = "returned"]
  /\ calls' = calls + 1
  /\ nullReturns' = nullReturns + 1
  /\ UNCHANGED <<parseVars, hairVars, codecVars, objects>>

\* GetElementBegin that also advances the segment it reads
GetElementBegin_ConsumesSegment(t, limit) ==
  /\ CanCall(t, limit)
  /\ \E i \in Indices :
       /\ ~OutOfRange(i)
       /\ LET k == UIntValue(SegmentIndex(i)) + 1
          IN  /\ frame' = [frame EXCEPT ![t] =
                   [_index |-> i, index |-> SegmentIndex(i), isNull |-> FALSE,
                    props |-> ElementProperties(i, m_segments[k]), handle |-> 0]]
              /\ m_segments' = [m_segments EXCEPT ![k].start = m_segments[k].end]
  /\ tpc' = [tpc EXCEPT ![t] = "createObject"]
  /\ calls' = calls + 1
  /\ UNCHANGED <<parseVars, m_radius, m_objectToWorld, m_bsdf, codecVars,
                 objects, nullReturns>>

\* lines 84-105 and 112-115: up to the request to the plugin registry
GetElementBegin(t, limit) ==
  /\ CanCall(t, limit)
  /\ \E i \in Indices :
       /\ ~OutOfRange(i)
       /\ frame' = [frame EXCEPT ![t] =
            [_index |-> i, index |-> SegmentIndex(i), isNull |-> FALSE,
             props |-> ElementProperties(i, m_segments[UIntValue(SegmentIndex(i)) + 1]),
             handle |-> 0]]
  /\ tpc' = [tpc EXCEPT ![t] = "createObject"]
  /\ calls' = calls + 1
  /\ UNCHANGED <<parseVars, hairVars, codecVars, objects, nullReturns>>

\* CreateObject followed directly by configure()
CreateObject_SkipsAddChild(t) ==
  /\ tpc[t] = "createObject"
  /\ objects' = Append(objects,
       [pluginName |-> frame[t].props.pluginName, children |-> << >>,
        configured |-> FALSE, log |-> <<"createObject">>])
  /\ frame' = [frame EXCEPT ![t].handle = Len(objects')]
  /\ tpc' = [tpc EXCEPT ![t] = "configure"]
  /\ UNCHANGED <<parseVars, hairVars, codecVars, calls, nullReturns>>

\* lines 106-107 and 116-117: the registry creates a new object
CreateObject(t) ==
  /\ tpc[t] = "createObject"
  /\ objects' = Append(objects,
       [pluginName |-> frame[t].props.pluginName, children |-> << >>,
        configured |-> FALSE, log |-> <<"createObject">>])
  /\ frame' = [frame EXCEPT ![t].handle = Len(objects')]
  /\ tpc' = [tpc EXCEPT ![t] = "addChild"]
  /\ UNCHANGED <<parseVars, hairVars, codecVars, calls, nullReturns>>

\* lines 108 and 118
AddChild(t) ==
  /\ tpc[t] = "addChild"
  /\ objects' = [objects EXCEPT ![frame[t].handle] =
       [@ EXCEPT !.children = Append(@, [name |-> "bsdf", child |-> m_bsdf]),
                 !.log = Append(@, "addChild")]]
  /\ tpc' = [tpc EXCEPT ![t] = "configure"]
  /\ UNCHANGED <<parseVars, hairVars, codecVars, frame, calls, nullReturns>>

\* lines 109 and 119
Configure(t) ==
  /\ tpc[t] = "configure"
  /\ objects' = [objects EXCEPT ![frame[t].handle] =
       [@ EXCEPT !.configured = TRUE, !.log = Append(@, "configure")]]
  /\ tpc' = [tpc EXCEPT ![t] = "return"]
  /\ UNCHANGED <<parseVars, hairVars, codecVars, frame, calls, nullReturns>>

\* lines 110 and 121
Return(t) ==
  /\ tpc[t] = "return"
  /\ objects' = [objects EXCEPT ![frame[t].handle].log = Append(@, "return")]
  /\ tpc' = [tpc EXCEPT ![t] = "returned"]
  /\ UNCHANGED <<parseVars, hairVars, codecVars, frame, calls, nullReturns>>

\* a loaded Hair and one caller
InitExpand ==
  /\ ParseIdle
  /\ CodecIdle
  /\ m_radius \in Radii
  /\ m_segments \in SeqsUpTo(SegmentSet, MaxSegs)
  /\ m_objectToWorld \in Worlds
  /\ m_bsdf = "bsdf"
  /\ tpc = [t \in {1} |-> "idle"]
  /\ frame = [t \in {1} |-> NoFrame]
  /\ objects = << >>
  /\ calls = 0
  /\ nullReturns = 0

NextExpand ==
  \/ GetElementNull(1, MaxCalls)
  \/ GetElementBegin(1, MaxCalls)
  \/ CreateObject(1)
  \/ AddChild(1)
  \/ Configure(1)
  \/ Return(1)

SpecExpand == InitExpand /\ [][NextExpand]_vars

\* a loaded Hair and NThreads concurrent callers
Threads == 1..NThreads

ConcStores ==
  { << >>,
    <<HairSegment(Pt(R(0), R(0), R(0)), Pt(R(3), R(0), R(0)))>>,
    <<HairSegment(Pt(R(0), R(0), R(0)), Pt(R(3), R(0), R(0))),
      HairSegment(Pt(R(3), R(0), R(0)), Pt(R(0), R(0), R(4)))>> }

InitConc ==
  /\ ParseIdle
  /\ CodecIdle
  /\ m_radius \in Radii
  /\ m_segments \in ConcStores
  /\ m_objectToWorld \in Worlds
  /\ m_bsdf = "bsdf"
  /\ tpc = [t \in Threads |-> "idle"]
  /\ frame = [t \in Threads |-> NoFrame]
  /\ objects = << >>
  /\ calls = 0
  /\ nullReturns = 0

NextConc ==
  \E t \in Threads :
    \/ GetElementNull(t, MaxConcCalls)
    \/ GetElementBegin(t, MaxConcCalls)
    \/ CreateObject(t)
    \/ AddChild(t)
    \/ Configure(t)
    \/ Return(t)

SpecConc == InitConc /\ [][NextConc]_vars

\* -------------------------------------------------- the codec's claims
\* C2: the Hair unserialized from the stream that serialize wrote has the
\* same radius, the same number of segments in the same order, and for
\* every segment the same start and the same end.
C2_RoundTrip ==
  cpc = "restored" =>
    /\ restored.m_radius = m_radius
    /\ Len(restored.m_segments) = Len(m_segments)
    /\ \A k \in 1..Len(m_segments) :
          /\ restored.m_segments[k].start = m_segments[k].start
          /\ restored.m_segments[k].end = m_segments[k].end

\* ------------------------------------------------ the parser's claims
\* The strands of a file without comment lines: maximal runs of point
\* lines between empty lines, each as the sequence of its points.
PointOf(l) == Pt(ParseFloat(l[1]), ParseFloat(l[2]), ParseFloat(l[3]))

StripComments(ls) == SelectSeq(ls, LAMBDA l : l # CommentLine)

RECURSIVE Strands(_)
Strands(ls) ==
  IF ls = << >> THEN << << >> >>
  ELSE LET rest == Strands(Tail(ls))
       IN  IF Head(ls) = BlankLine
             THEN << << >> >> \o rest
             ELSE << <<PointOf(Head(ls))>> \o rest[1] >> \o Tail(rest)

\* the n-1 segments joining the consecutive points of one strand
Chain(s) == [i \in 1..(Len(s) - 1) |-> HairSegment(s[i], s[i + 1])]

RECURSIVE Chains(_)
Chains(ss) == IF ss = << >> THEN << >> ELSE Chain(Head(ss)) \o Chains(Tail(ss))

StoreOf(ls) == Chains(Strands(ls))

\* C3: while and after parsing, the store is exactly the chain of
\* consecutive points of every blank-line-delimited strand of the lines
\* consumed so far, in file order (n-1 segments for a strand of n points,
\* no segment across a strand boundary), with or without a final newline.
C3_StoreIsStrandChains ==
  pc \in {"loop", "done"} =>
     m_segments = StoreOf(StripComments(SubSeq(file, 1, pos)))

\* a finished parse of a file with a strand boundary after a segment
C3_Witness ==
  /\ pc = "done"
  /\ ~trailingNewline
  /\ Len(m_segments) = 1
  /\ \E i \in 2..(Len(file) - 1) :
        /\ file[i] = BlankLine
        /\ file[i - 1] \in PointLines
        /\ file[i + 1] \in PointLines

\* C4: reading a comment line changes neither the strand state (prev and
\* the point counter) nor the store, and the finished store is the store of
\* the file with its comment lines removed.
C4_CommentsAreTransparent ==
  [][ /\ (pc = "loop" /\ good(is) /\ pos < Len(file)
            /\ file[pos + 1] = CommentLine)
         => UNCHANGED <<segments, prev, p, m_segments>>
      /\ pc' = "done" => m_segments' = StoreOf(StripComments(file)) ]_vars

\* a finished parse that joined two points separated only by a comment
C4_Witness ==
  /\ pc = "done"
  /\ Len(m_segments) >= 1
  /\ \E i \in 1..(Len(file) - 2) :
        /\ file[i] \in PointLines
        /\ file[i + 1] = CommentLine
        /\ file[i + 2] \in PointLines

\* C7: when the file cannot be opened the constructor aborts: it never
\* reaches the reading loop and never completes, and no line is read.
C7_OpenFailureAborts ==
  ~canOpen => /\ pc \in {"start", "aborted"}
              /\ pos = 0
              /\ m_segments = << >>

\* the constructor has aborted on a file that cannot be opened
C7_Witness == ~canOpen /\ pc = "aborted" /\ fail(is)

\* ------------------------------------------------- getElement's claims
Callers == DOMAIN tpc

InCall(t) == tpc[t] # "idle"

IsPrefix(a, b) == Len(a) <= Len(b) /\ a = SubSeq(b, 1, Len(a))

\* C1: for every index >= 0 the call yields NULL exactly when the index is
\* at least 2N, and a completed call returns a handle exactly when it did
\* not yield NULL: the indices 0 .. 2N-1 give 2N primitives, 2N gives NULL.
C1_TwoPrimitivesPerSegment ==
  \A t \in Callers :
     /\ (InCall(t) /\ frame[t]._index >= 0) =>
           (frame[t].isNull <=> frame[t]._index >= 2 * Len(m_segments))
     /\ tpc[t] = "returned" =>
           (frame[t].isNull <=> frame[t].handle = 0)

\* the caller got a primitive from an earlier call and NULL at index 2N
C1_Witness ==
  /\ Len(m_segments) >= 1
  /\ tpc[1] = "returned"
  /\ frame[1]._index = 2 * Len(m_segments)
  /\ frame[1].isNull
  /\ Len(objects) = 1
  /\ objects[1].log = <<"createObject", "addChild", "configure", "return">>

\* l is the Euclidean distance between the points a and b
IsDistance(l, a, b) ==
  /\ IsFinite(l)
  /\ l.n >= 0
  /\ FMul(l, l) = FAdd(FAdd(FMul(FSub(b.x, a.x), FSub(b.x, a.x)),
                            FMul(FSub(b.y, a.y), FSub(b.y, a.y))),
                       FMul(FSub(b.z, a.z), FSub(b.z, a.z)))

\* the request of a call with index 2k or 2k+1, 0 <= k < N: sphere or
\* cylinder, the shape's radius, the world transform times the translation
\* to segments[k].start times a rotation, and the cylinder's length
RequestMatchesSegment(t) ==
  LET i == frame[t]._index
      seg == m_segments[(i \div 2) + 1]
      pr == frame[t].props
      w == Len(m_objectToWorld)
      tr == pr.values["toWorld"]
  IN  /\ pr.values["radius"] = m_radius
      /\ Len(tr) = w + 2
      /\ SubSeq(tr, 1, w) = m_objectToWorld
      /\ tr[w + 1] = Translate(seg.start)
      /\ tr[w + 2].op = "rotate"
      /\ IF i % 2 = 0
           THEN /\ pr.pluginName = "sphere"
                /\ DOMAIN pr.values = {"radius", "toWorld"}
           ELSE /\ pr.pluginName = "cylinder"
                /\ DOMAIN pr.values = {"radius", "length", "toWorld"}
                /\ IsDistance(pr.values["length"], seg.start, seg.end)

\* the point a sphere request is centred on, in the shape's own frame
SphereCentre(t) == frame[t].props.values["toWorld"][Len(m_objectToWorld) + 1].v

IsSphereCall(t) ==
  InCall(t) /\ ~frame[t].isNull /\ frame[t].props.pluginName = "sphere"

InRangeCall(t) ==
  InCall(t) /\ frame[t]._index >= 0 /\ frame[t]._index < 2 * Len(m_segments)

\* C5 as stated: every call with index 2k / 2k+1 (0 <= k < N) requests the
\* sphere / cylinder of segments[k] as above, and no sphere is centred on
\* the end point of any segment.
C5_Original ==
  \A t \in Callers :
     /\ InRangeCall(t) => RequestMatchesSegment(t)
     /\ IsSphereCall(t) =>
           \A k \in 1..Len(m_segments) : SphereCentre(t) # m_segments[k].end

\* C5 as amended: every call with index 2k / 2k+1 (0 <= k < N) requests
\* the sphere / cylinder of segments[k] as above, and a sphere is centred
\* on a segment's end point only if that point is also the start point of
\* a segment.
C5_SphereAtStartCylinderAlong ==
  \A t \in Callers :
     /\ InRangeCall(t) => RequestMatchesSegment(t)
     /\ IsSphereCall(t) =>
           \A k \in 1..Len(m_segments) :
              SphereCentre(t) = m_segments[k].end =>
                 \E j \in 1..Len(m_segments) :
                    m_segments[j].start = m_segments[k].end

\* after the sphere of a segment of length 5, its cylinder was returned
C5_Witness ==
  /\ tpc[1] = "returned"
  /\ ~frame[1].isNull
  /\ frame[1].props.pluginName = "cylinder"
  /\ frame[1].props.values["length"] = R(5)
  /\ Len(objects) = 2
  /\ objects[1].pluginName = "sphere"
  /\ m_objectToWorld # << >>

TransformFinite(tr) ==
  \A j \in 1..Len(tr) :
     /\ IsFinite(tr[j].v.x) /\ IsFinite(tr[j].v.y) /\ IsFinite(tr[j].v.z)
     /\ tr[j].angle.kind # "nan"

\* C6: the transform of every requested primitive is finite: no NaN in the
\* rotation axis, the rotation angle or the translation, also for segments
\* parallel or anti-parallel to Z and for segments of length zero.
C6_TransformFinite ==
  \A t \in Callers :
     (InCall(t) /\ ~frame[t].isNull) =>
        TransformFinite(frame[t].props.values["toWorld"])

\* C10: a call yields a primitive only for 0 <= index < 2N, so every
\* negative index yields NULL, and the segment used is floor(index / 2).
C10_NullOutsideRange ==
  \A t \in Callers :
     InCall(t) =>
        /\ ~frame[t].isNull =>
              /\ 0 <= frame[t]._index
              /\ frame[t]._index < 2 * Len(m_segments)
              /\ UIntValue(frame[t].index) = frame[t]._index \div 2
        /\ frame[t]._index < 0 => frame[t].isNull

\* C8: no step of any caller changes the segments, the radius or the world
\* transform, and two calls with the same index, however interleaved, yield
\* the same outcome: both NULL, or requests with equal properties.
C8_StoreReadOnly ==
  [][ /\ m_segments' = m_segments
      /\ m_radius' = m_radius
      /\ m_objectToWorld' = m_objectToWorld
      /\ \A t \in Callers, u \in Callers :
            (tpc'[t] # "idle" /\ tpc'[u] # "idle"
               /\ frame'[t]._index = frame'[u]._index)
            => /\ frame'[t].isNull = frame'[u].isNull
               /\ frame'[t].props = frame'[u].props ]_vars

\* two callers are inside getElement for the same index at the same time
C8_Witness ==
  \E t \in Callers, u \in Callers :
     /\ t # u
     /\ tpc[t] = "configure"
     /\ tpc[u] = "addChild"
     /\ frame[t]._index = frame[u]._index
     /\ frame[t].handle # frame[u].handle

FullLog == <<"createObject", "addChild", "configure", "return">>

BsdfChild == [name |-> "bsdf", child |-> m_bsdf]

\* C9: every object of the registry goes through createObject, addChild
\* ("bsdf", m_bsdf), configure and return, in this order and once each; a
\* returned handle has been through all four; a NULL call has no handle;
\* no two calls hold the same handle; and the registry has created exactly
\* one object per call that got past its request, none for a NULL call.
C9_RegistryProtocol ==
  /\ \A h \in 1..Len(objects) :
        /\ IsPrefix(objects[h].log, FullLog)
        /\ objects[h].children =
             (IF Len(objects[h].log) >= 2 THEN <<BsdfChild>> ELSE << >>)
        /\ objects[h].configured = (Len(objects[h].log) >= 3)
  /\ \A t \in Callers :
        /\ (tpc[t] = "returned" /\ ~frame[t].isNull) =>
              /\ frame[t].handle \in 1..Len(objects)
              /\ objects[frame[t].handle].log = FullLog
        /\ (InCall(t) /\ frame[t].isNull) => frame[t].handle = 0
  /\ \A t \in Callers, u \in Callers :
        (t # u /\ frame[t].handle # 0) => frame[t].handle # frame[u].handle
  /\ Len(objects) + nullReturns
       + Cardinality({t \in Callers : tpc[t] = "createObject"}) = calls

\* one call returned NULL, another returned a configured primitive
C9_Witness ==
  /\ nullReturns = 1
  /\ \E t \in Callers :
        /\ tpc[t] = "returned"
        /\ ~frame[t].isNull
        /\ objects[frame[t].handle].log = FullLog

====
